---- MODULE Spec2Model ----
(***************************************************************************)
(* Control-flow model of the four Playwright verification scripts          *)
(*   verification/verify_app.py            (verify_app)                    *)
(*   verification/verify_app_debug.py      (verify_app)                    *)
(*   verification/verify_fix.py            (verify_fix)                    *)
(*   verification/verify_revolutionary.py  (verify_app_revolutionary)      *)
(*                                                                         *)
(* Every automation call (launch, new_page, goto, wait_for_selector,       *)
(* fill, click, is_visible, title, content, screenshot) either returns or  *)
(* raises; the model draws that outcome nondeterministically.  A program   *)
(* counter pc holds the source line of the next statement, so every action *)
(* below is one statement (with the prints that follow it) of one script.  *)
(* Leaving the `with sync_playwright()` block stops the Playwright driver, *)
(* which terminates a browser process that is still running.               *)
(***************************************************************************)
EXTENDS Naturals, Sequences, FiniteSets

\* Number of consecutive invocations of the chosen script that are explored.
MaxRuns == 2

VARIABLES
    script,      \* which script file is being run
    run,         \* ordinal of the current invocation (1..MaxRuns)
    pc,          \* source line of the next statement ("L10"), "exit", "done"
    calls,       \* automation calls attempted in this run, in order
    out,         \* lines printed to standard output in this run, in order
    files,       \* screenshot files on disk: records [path, gen]
    written,     \* paths written by this run
    startPaths,  \* paths on disk when this run started
    prevWritten, \* paths written by the previous run
    prevStart,   \* paths on disk when the previous run started
    browser,     \* "none" | "open" | "closed": the browser process
    closeCalls,  \* number of browser.close() calls in this run
    exc,         \* the call whose exception is propagating, or NoExc
    swallowed,   \* calls whose exception a bare `except:` caught locally
    topCaught,   \* calls whose exception `except Exception as e:` caught
    result       \* "running" | "returned" | "escaped"

vars == <<script, run, pc, calls, out, files, written, startPaths, prevWritten,
          prevStart, browser, closeCalls, exc, swallowed, topCaught, result>>

APP   == "verify_app.py"
DEBUG == "verify_app_debug.py"
FIX   == "verify_fix.py"
REV   == "verify_revolutionary.py"
Scripts == {APP, DEBUG, FIX, REV}

Rec(op, arg, res) == [op |-> op, arg |-> arg, res |-> res]
NoExc == Rec("", "", "")
ErrorLine == "Error: {e}"

Paths(fs) == {f.path : f \in fs}

\* Variant of WriteFile in which a screenshot never replaces an older file.
WriteFileKeep(fs, path, gen) == fs \cup {[path |-> path, gen |-> gen]}

\* page.screenshot(path=...) writes the image at a fixed path, replacing
\* whatever file was there.
WriteFile(fs, path, gen) ==
    {f \in fs : f.path # path} \cup {[path |-> path, gen |-> gen]}

Init ==
    /\ script \in Scripts
    /\ run = 1
    /\ pc = "L6"
    /\ calls = <<>>
    /\ out = <<>>
    /\ files = {}
    /\ written = {}
    /\ startPaths = {}
    /\ prevWritten = {}
    /\ prevStart = {}
    /\ browser = "none"
    /\ closeCalls = 0
    /\ exc = NoExc
    /\ swallowed = {}
    /\ topCaught = {}
    /\ result = "running"

(***************************************************************************)
(* Statement forms shared by the scripts.                                  *)
(***************************************************************************)

\* The effect of one automation call `op(arg)` at line l of script s with
\* outcome res.  "ok" continues at okPc after printing okOut.  "raise" is
\* caught by an enclosing bare `except:` when local (printing failOut and
\* continuing at failPc); otherwise the exception propagates to failPc (the
\* top-level handler, or "exit" when no try block encloses the call).
Effect(op, arg, res, okOut, okPc, failOut, failPc, local) ==
    LET c == Rec(op, arg, res) IN
    /\ calls' = Append(calls, c)
    /\ IF res # "raise"
       THEN /\ out' = out \o okOut
            /\ pc' = okPc
            /\ exc' = exc
            /\ swallowed' = swallowed
            /\ IF op = "screenshot"
               THEN /\ files' = WriteFile(files, arg, run)
                    /\ written' = written \cup {arg}
               ELSE UNCHANGED <<files, written>>
       ELSE /\ out' = out \o failOut
            /\ pc' = failPc
            /\ exc' = IF local THEN exc ELSE c
            /\ swallowed' = IF local THEN swallowed \cup {c} ELSE swallowed
            /\ UNCHANGED <<files, written>>
    /\ UNCHANGED <<script, run, startPaths, prevWritten, prevStart, browser,
                   closeCalls, topCaught, result>>

\* A call inside a nested try block with a bare `except:` clause.
Try(s, l, op, arg, okOut, okPc, failOut, failPc) ==
    /\ script = s
    /\ pc = l
    /\ \E res \in {"ok", "raise"} :
          Effect(op, arg, res, okOut, okPc, failOut, failPc, TRUE)

\* Variant of Do in which a failure is swallowed and the scenario goes on.
DoSwallow(s, l, op, arg, okOut, okPc, hPc) ==
    Try(s, l, op, arg, okOut, okPc, <<>>, okPc)

\* A call directly inside the top-level try block: a failure propagates to
\* the `except Exception as e:` handler at hPc.
Do(s, l, op, arg, okOut, okPc, hPc) ==
    /\ script = s
    /\ pc = l
    /\ \E res \in {"ok", "raise"} :
          Effect(op, arg, res, okOut, okPc, <<>>, hPc, FALSE)

\* browser = p.chromium.launch(headless=True): outside every try block.
Launch(s) ==
    /\ script = s
    /\ pc = "L6"
    /\ \E ok \in BOOLEAN :
          /\ calls' = Append(calls, Rec("launch", "chromium",
                                        IF ok THEN "ok" ELSE "raise"))
          /\ browser' = IF ok THEN "open" ELSE "none"
          /\ pc' = IF ok THEN "L7" ELSE "exit"
          /\ exc' = IF ok THEN exc ELSE Rec("launch", "chromium", "raise")
    /\ UNCHANGED <<script, run, out, files, written, startPaths, prevWritten,
                   prevStart, closeCalls, swallowed, topCaught, result>>

\* page = browser.new_page(): after the launch, before the try block.
NewPage(s) ==
    /\ script = s
    /\ pc = "L7"
    /\ \E res \in {"ok", "raise"} :
          Effect("new_page", "", res, <<>>, "L10", <<>>, "exit", FALSE)

\* page.goto("http://localhost:4173"), the first call of the try block,
\* preceded by the prints in preOut and followed on success by okOut.
Goto(s, preOut, okOut, okPc, hPc) ==
    /\ script = s
    /\ pc = "L10"
    /\ \E res \in {"ok", "raise"} :
          Effect("goto", "http://localhost:4173", res,
                 preOut \o okOut, okPc, preOut, hPc, FALSE)

\* except Exception as e: print(f"Error: {e}") and, when shot # "", the
\* diagnostic page.screenshot(path=shot).  An exception raised by that
\* screenshot propagates after the finally block has run.
Handler(s, l, shot, finPc) ==
    /\ script = s
    /\ pc = l
    /\ topCaught' = topCaught \cup {exc}
    /\ IF shot = ""
       THEN /\ out' = Append(out, ErrorLine)
            /\ exc' = NoExc
            /\ UNCHANGED <<calls, files, written>>
       ELSE \E ok \in BOOLEAN :
            LET c == Rec("screenshot", shot, IF ok THEN "ok" ELSE "raise") IN
            /\ out' = Append(out, ErrorLine)
            /\ calls' = Append(calls, c)
            /\ exc' = IF ok THEN NoExc ELSE c
            /\ files' = IF ok THEN WriteFile(files, shot, run) ELSE files
            /\ written' = IF ok THEN written \cup {shot} ELSE written
    /\ pc' = finPc
    /\ UNCHANGED <<script, run, startPaths, prevWritten, prevStart, browser,
                   closeCalls, swallowed, result>>

\* finally: browser.close()
Finally(s, l) ==
    /\ script = s
    /\ pc = l
    /\ browser' = "closed"
    /\ closeCalls' = closeCalls + 1
    /\ pc' = "exit"
    /\ UNCHANGED <<script, run, calls, out, files, written, startPaths,
                   prevWritten, prevStart, exc, swallowed, topCaught, result>>

\* Variant of WithExit in which the driver is not stopped on the way out.
WithExitNoStop ==
    /\ pc = "exit"
    /\ result' = IF exc = NoExc THEN "returned" ELSE "escaped"
    /\ pc' = "done"
    /\ UNCHANGED <<script, run, calls, out, files, written, startPaths,
                   prevWritten, prevStart, browser, closeCalls, exc,
                   swallowed, topCaught>>

\* End of the `with sync_playwright() as p:` block: the driver is stopped,
\* which ends a browser process that was not closed, and the function
\* returns or lets the pending exception escape.
WithExit ==
    /\ pc = "exit"
    /\ browser' = IF browser = "open" THEN "closed" ELSE browser
    /\ result' = IF exc = NoExc THEN "returned" ELSE "escaped"
    /\ pc' = "done"
    /\ UNCHANGED <<script, run, calls, out, files, written, startPaths,
                   prevWritten, prevStart, closeCalls, exc, swallowed,
                   topCaught>>

\* if __name__ == "__main__": the script is invoked again as a new process;
\* only the files on disk carry over.
Rerun ==
    /\ pc = "done"
    /\ run < MaxRuns
    /\ run' = run + 1
    /\ pc' = "L6"
    /\ calls' = <<>>
    /\ out' = <<>>
    /\ prevWritten' = written
    /\ prevStart' = startPaths
    /\ startPaths' = Paths(files)
    /\ written' = {}
    /\ browser' = "none"
    /\ closeCalls' = 0
    /\ exc' = NoExc
    /\ swallowed' = {}
    /\ topCaught' = {}
    /\ result' = "running"
    /\ UNCHANGED <<script, files>>

(***************************************************************************)
(* verification/verify_app.py                                              *)
(***************************************************************************)
app_L6 == Launch(APP)
app_L7 == NewPage(APP)
app_L10 == Goto(APP, <<>>, <<>>, "L18", "L52")
\* Variant of app_L18 with the wait outside the nested try block.
app_L18_Propagates ==
    Do(APP, "L18", "wait_for_selector", "text=Access Protocol",
       <<"Auth screen detected">>, "L20", "L52")
app_L18 == Try(APP, "L18", "wait_for_selector", "text=Access Protocol",
               <<"Auth screen detected">>, "L20",
               <<"Auth screen not found or already logged in">>, "L30")
app_L20 == Try(APP, "L20", "screenshot", "verification/1_auth_screen.png",
               <<>>, "L23",
               <<"Auth screen not found or already logged in">>, "L30")
\* Variant of app_L23 that goes on to the click without the password fill.
app_L23_SkipsPassword ==
    Try(APP, "L23", "fill", "input[type=\"email\"]", <<>>, "L25",
        <<"Auth screen not found or already logged in">>, "L30")
app_L23 == Try(APP, "L23", "fill", "input[type=\"email\"]",
               <<>>, "L24",
               <<"Auth screen not found or already logged in">>, "L30")
app_L24 == Try(APP, "L24", "fill", "input[type=\"password\"]",
               <<>>, "L25",
               <<"Auth screen not found or already logged in">>, "L30")
app_L25 == Try(APP, "L25", "click", "button:has-text(\"Initialize Session\")",
               <<>>, "L30",
               <<"Auth screen not found or already logged in">>, "L30")
app_L30 == Do(APP, "L30", "wait_for_selector", "text=SYSTEM ACTIVE",
              <<"Scanner view detected">>, "L32", "L52")
app_L32 == Do(APP, "L32", "screenshot", "verification/2_scanner_view.png",
              <<>>, "L36", "L52")
app_L36 == Do(APP, "L36", "click", "header div.cursor-pointer",
              <<>>, "L37", "L52")
app_L37 == Do(APP, "L37", "wait_for_selector", "text=Operative Profile",
              <<"Profile view detected">>, "L39", "L52")
app_L39 == Do(APP, "L39", "screenshot", "verification/3_profile_view.png",
              <<>>, "L42", "L52")
app_L42 == Do(APP, "L42", "click", "button:has(svg.lucide-x)",
              <<>>, "L46", "L52")
app_L46 == Do(APP, "L46", "click", "button:has(svg.lucide-box)",
              <<>>, "L47", "L52")
app_L47 == Do(APP, "L47", "wait_for_selector", "text=Vault",
              <<"Collection view detected">>, "L49", "L52")
app_L49 == Do(APP, "L49", "screenshot", "verification/4_collection_view.png",
              <<>>, "L55", "L52")
app_L52 == Handler(APP, "L52", "verification/error.png", "L55")
app_L55 == Finally(APP, "L55")

(***************************************************************************)
(* verification/verify_app_debug.py                                        *)
(***************************************************************************)
\* Marker texts that page.content() may contain.
Markers == {"Access Protocol", "SYSTEM ACTIVE"}

dbg_L6 == Launch(DEBUG)
dbg_L7 == NewPage(DEBUG)
dbg_L10 == Goto(DEBUG, <<"Navigating to app...">>, <<"Waiting for body...">>,
                "L13", "L32")
dbg_L13 == Do(DEBUG, "L13", "wait_for_selector", "body", <<>>, "L16", "L32")
dbg_L16 == Do(DEBUG, "L16", "screenshot", "verification/debug_state.png",
              <<>>, "L19", "L32")
dbg_L19 == Do(DEBUG, "L19", "title", "", <<"Page Title: {title}">>, "L20",
              "L32")
\* content = page.content(), the snippet print and the if/elif/else on the
\* markers found in the content.
dbg_L20 ==
    /\ script = DEBUG
    /\ pc = "L20"
    /\ \/ Effect("content", "", "raise", <<>>, "L34", <<>>, "L32", FALSE)
       \/ \E content \in SUBSET Markers :
            Effect("content", "", "ok",
                   <<"Page Content Snippet: {content[:500]}",
                     IF "Access Protocol" \in content
                     THEN "Auth screen detected via text check"
                     ELSE IF "SYSTEM ACTIVE" \in content
                          THEN "Scanner view detected via text check"
                          ELSE "Unknown state">>,
                   "L34", <<>>, "L32", FALSE)
dbg_L32 == Handler(DEBUG, "L32", "", "L34")
dbg_L34 == Finally(DEBUG, "L34")

(***************************************************************************)
(* verification/verify_fix.py                                              *)
(***************************************************************************)
fix_L6 == Launch(FIX)
fix_L7 == NewPage(FIX)
fix_L10 == Goto(FIX, <<"Navigating to app...">>, <<>>, "L15", "L30")
fix_L15 == Try(FIX, "L15", "wait_for_selector", "text=ROCKHOUND",
               <<"App loaded successfully (Auth screen)">>, "L17",
               <<>>, "L21")
fix_L17 == Try(FIX, "L17", "screenshot", "verification/fixed_load.png",
               <<>>, "L32", <<>>, "L21")
fix_L21 == Try(FIX, "L21", "wait_for_selector", "text=SYSTEM ACTIVE",
               <<"App loaded successfully (Scanner)">>, "L23",
               <<"Still stuck or unknown state">>, "L26")
fix_L23 == Try(FIX, "L23", "screenshot", "verification/fixed_load.png",
               <<>>, "L32", <<"Still stuck or unknown state">>, "L26")
\* Lines 26 and 27 are inside an except clause: their exceptions propagate to
\* the top-level handler.
fix_L26 == Do(FIX, "L26", "screenshot", "verification/still_stuck.png",
              <<>>, "L27", "L30")
fix_L27 == Do(FIX, "L27", "content", "", <<"{content[:500]}">>, "L32", "L30")
fix_L30 == Handler(FIX, "L30", "", "L32")
fix_L32 == Finally(FIX, "L32")

(***************************************************************************)
(* verification/verify_revolutionary.py                                    *)
(***************************************************************************)
rev_L6 == Launch(REV)
rev_L7 == NewPage(REV)
rev_L10 == Goto(REV, <<"Navigating to app...">>, <<>>, "L14", "L58")
rev_L14 == Try(REV, "L14", "wait_for_selector", "text=INITIALIZING KERNEL...",
               <<"Splash screen detected">>, "L16",
               <<"Splash screen skipped or missed">>, "L22")
rev_L16 == Try(REV, "L16", "screenshot", "verification/1_splash.png",
               <<>>, "L22", <<"Splash screen skipped or missed">>, "L22")
rev_L22 == Try(REV, "L22", "wait_for_selector", "text=ROCKHOUND",
               <<>>, "L24",
               <<"Auth screen not found or already logged in">>, "L36")
\* if page.is_visible('button:has-text("Initialize Protocol")'):
rev_L24 ==
    /\ script = REV
    /\ pc = "L24"
    /\ \E res \in {"True", "False", "raise"} :
          Effect("is_visible", "button:has-text(\"Initialize Protocol\")", res,
                 IF res = "True" THEN <<"Auth screen detected">> ELSE <<>>,
                 IF res = "True" THEN "L26" ELSE "L36",
                 <<"Auth screen not found or already logged in">>, "L36", TRUE)
rev_L26 == Try(REV, "L26", "screenshot", "verification/2_auth.png",
               <<>>, "L29",
               <<"Auth screen not found or already logged in">>, "L36")
rev_L29 == Try(REV, "L29", "fill", "input[type=\"email\"]",
               <<>>, "L30",
               <<"Auth screen not found or already logged in">>, "L36")
rev_L30 == Try(REV, "L30", "fill", "input[type=\"password\"]",
               <<>>, "L31",
               <<"Auth screen not found or already logged in">>, "L36")
rev_L31 == Try(REV, "L31", "click", "button:has-text(\"Authenticate\")",
               <<>>, "L36",
               <<"Auth screen not found or already logged in">>, "L36")
rev_L36 == Do(REV, "L36", "wait_for_selector", "text=SYSTEM ACTIVE",
              <<"Scanner HUD detected">>, "L38", "L58")
rev_L38 == Do(REV, "L38", "screenshot", "verification/3_scanner_hud.png",
              <<>>, "L42", "L58")
rev_L42 == Do(REV, "L42", "click", "header button:has(svg.lucide-terminal)",
              <<>>, "L43", "L58")
rev_L43 == Do(REV, "L43", "wait_for_selector", "text=Mainframe Control",
              <<"Admin Dashboard detected">>, "L45", "L58")
rev_L45 == Do(REV, "L45", "screenshot", "verification/4_admin_dashboard.png",
              <<>>, "L48", "L58")
rev_L48 == Do(REV, "L48", "click", "button:has(svg.lucide-arrow-left)",
              <<>>, "L52", "L58")
\* Variant of rev_L52 that takes the screenshot without waiting for the marker.
rev_L52_NoWait ==
    Do(REV, "L52", "click", "header button:has(svg.lucide-cloud-sun)",
       <<>>, "L55", "L58")
rev_L52 == Do(REV, "L52", "click", "header button:has(svg.lucide-cloud-sun)",
              <<>>, "L53", "L58")
rev_L53 == Do(REV, "L53", "wait_for_selector", "text=Planetary Conditions",
              <<"Weather Dashboard detected">>, "L55", "L58")
rev_L55 == Do(REV, "L55", "screenshot", "verification/5_weather_dashboard.png",
              <<>>, "L61", "L58")
rev_L58 == Handler(REV, "L58", "verification/error_rev.png", "L61")
rev_L61 == Finally(REV, "L61")


Next ==
    \/ app_L6 \/ app_L7 \/ app_L10 \/ app_L18 \/ app_L20 \/ app_L23
    \/ app_L24 \/ app_L25 \/ app_L30 \/ app_L32 \/ app_L36 \/ app_L37
    \/ app_L39 \/ app_L42 \/ app_L46 \/ app_L47 \/ app_L49 \/ app_L52
    \/ app_L55
    \/ dbg_L6 \/ dbg_L7 \/ dbg_L10 \/ dbg_L13 \/ dbg_L16 \/ dbg_L19
    \/ dbg_L20 \/ dbg_L32 \/ dbg_L34
    \/ fix_L6 \/ fix_L7 \/ fix_L10 \/ fix_L15 \/ fix_L17 \/ fix_L21
    \/ fix_L23 \/ fix_L26 \/ fix_L27 \/ fix_L30 \/ fix_L32
    \/ rev_L6 \/ rev_L7 \/ rev_L10 \/ rev_L14 \/ rev_L16 \/ rev_L22
    \/ rev_L24 \/ rev_L26 \/ rev_L29 \/ rev_L30 \/ rev_L31 \/ rev_L36
    \/ rev_L38 \/ rev_L42 \/ rev_L43 \/ rev_L45 \/ rev_L48 \/ rev_L52
    \/ rev_L53 \/ rev_L55 \/ rev_L58 \/ rev_L61
    \/ WithExit
    \/ Rerun

Spec == Init /\ [][Next]_vars

\* Every call returns or raises (each wait is bounded by its timeout), so a
\* script that can take a step eventually takes it.
FairSpec == Spec /\ WF_vars(Next)

(***************************************************************************)
(* Vocabulary of the properties.                                           *)
(***************************************************************************)
Done == pc = "done"
Idx == 1..Len(calls)
Printed(line) == \E n \in 1..Len(out) : out[n] = line
Times(line) == Cardinality({n \in 1..Len(out) : out[n] = line})
Launched == \E i \in Idx : calls[i] = Rec("launch", "chromium", "ok")
Wait(marker, res) == Rec("wait_for_selector", marker, res)
IsWait(c, marker) == c.op = "wait_for_selector" /\ c.arg = marker
SysWait(c) == IsWait(c, "text=SYSTEM ACTIVE")
Happened(c) == \E i \in Idx : calls[i] = c

ErrorShot(s) == IF s = APP THEN "verification/error.png"
                ELSE IF s = REV THEN "verification/error_rev.png"
                ELSE ""
FailureShots == {"verification/error.png", "verification/error_rev.png",
                 "verification/still_stuck.png"}
AuthMiss == "Auth screen not found or already logged in"

\* C1 (as stated): once the browser has been launched, a finished run has
\* left no browser open and has called browser.close() exactly once.
C1_ClosedExactlyOnce ==
    (Done /\ Launched) => (browser # "open" /\ closeCalls = 1)

\* The waits the claim C2 calls mandatory, in whichever script they occur.
MandatoryAnywhere(c) ==
    \/ c.op = "goto"
    \/ /\ c.op = "wait_for_selector"
       /\ c.arg \in {"body", "text=SYSTEM ACTIVE", "text=Operative Profile",
                     "text=Vault", "text=Mainframe Control",
                     "text=Planetary Conditions"}
\* The waits that are outside every nested try block of script s.
Mandatory(s, c) ==
    \/ c.op = "goto"
    \/ /\ c.op = "wait_for_selector"
       /\ c.arg \in (IF s = APP THEN {"text=SYSTEM ACTIVE",
                                       "text=Operative Profile", "text=Vault"}
                     ELSE IF s = REV THEN {"text=SYSTEM ACTIVE",
                                           "text=Mainframe Control",
                                           "text=Planetary Conditions"}
                     ELSE IF s = DEBUG THEN {"body"}
                     ELSE {})
IsFailureShot(c) == c.op = "screenshot" /\ c.arg \in FailureShots

OptionalWaits(s) ==
    IF s = APP THEN {"text=Access Protocol"}
    ELSE IF s = REV THEN {"text=INITIALIZING KERNEL...", "text=ROCKHOUND"}
    ELSE {}
MissLine(marker) ==
    IF marker = "text=INITIALIZING KERNEL..."
    THEN "Splash screen skipped or missed" ELSE AuthMiss
OptionalMiss(c) ==
    /\ script \in {APP, REV}
    /\ c.op = "wait_for_selector"
    /\ c.arg \in OptionalWaits(script)
    /\ c.res = "raise"

\* C3: in verify_app and verify_app_revolutionary a missed optional wait is
\* swallowed and its diagnostic printed; it never reaches the top-level
\* handler; the call after it is the wait of the next step, the SYSTEM
\* ACTIVE wait is reached before anything can abort the run, and a run
\* whose SYSTEM ACTIVE wait succeeded has not been aborted up to there.
C3_OptionalMissContinues ==
    \A i \in Idx : OptionalMiss(calls[i]) =>
        /\ calls[i] \in swallowed
        /\ calls[i] \notin topCaught
        /\ exc # calls[i]
        /\ Printed(MissLine(calls[i].arg))
        /\ i < Len(calls) =>
             /\ calls[i + 1].op = "wait_for_selector"
             /\ calls[i + 1].arg =
                  IF calls[i].arg = "text=INITIALIZING KERNEL..."
                  THEN "text=ROCKHOUND" ELSE "text=SYSTEM ACTIVE"
        /\ (Done \/ exc # NoExc \/ topCaught # {}) =>
             \E j \in Idx : j > i /\ SysWait(calls[j])
        /\ \A j \in Idx : (j > i /\ calls[j] = Wait("text=SYSTEM ACTIVE", "ok"))
             => /\ \A k \in 1..j : calls[k].res = "raise"
                                     => calls[k] \in swallowed
                /\ (j = Len(calls) => (exc = NoExc /\ topCaught = {}
                                       /\ ~Printed(ErrorLine)))

C3_Witness ==
    /\ Done
    /\ script = REV
    /\ Happened(Wait("text=INITIALIZING KERNEL...", "raise"))
    /\ Happened(Wait("text=ROCKHOUND", "raise"))
    /\ Happened(Wait("text=SYSTEM ACTIVE", "ok"))
    /\ result = "returned"
    /\ topCaught = {}

\* C4 (as stated): no exception escapes a script function: every finished
\* run of a launched browser has returned normally.
C4_NoExceptionEscapes ==
    (Done /\ Launched) => result = "returned"

\* The authentication marker of a script and the statements of the optional
\* block that follow its wait, in source order.
AuthMarker(s) == IF s = APP THEN "text=Access Protocol" ELSE "text=ROCKHOUND"
LoginBlock(s) ==
    IF s = APP
    THEN << <<"screenshot", "verification/1_auth_screen.png">>,
            <<"fill", "input[type=\"email\"]">>,
            <<"fill", "input[type=\"password\"]">>,
            <<"click", "button:has-text(\"Initialize Session\")">> >>
    ELSE << <<"is_visible", "button:has-text(\"Initialize Protocol\")">>,
            <<"screenshot", "verification/2_auth.png">>,
            <<"fill", "input[type=\"email\"]">>,
            <<"fill", "input[type=\"password\"]">>,
            <<"click", "button:has-text(\"Authenticate\")">> >>
LoginClick(s) == LoginBlock(s)[Len(LoginBlock(s))]
GoesOn(c) == c.res \in {"ok", "True"}
AuthDetected(i) ==
    /\ script \in {APP, REV}
    /\ calls[i] = Wait(AuthMarker(script), "ok")

\* C5 (as stated, read in its most favourable way: only runs in which no
\* automation call raises): in verify_app and verify_app_revolutionary
\* every run whose authentication marker wait succeeded has filled both
\* fields, clicked the login button and gone on to the SYSTEM ACTIVE wait.
C5_LoginAlwaysSubmitted ==
    (Done /\ \A h \in Idx : calls[h].res # "raise") =>
      \A i \in Idx : AuthDetected(i) =>
        /\ Happened(Rec("fill", "input[type=\"email\"]", "ok"))
        /\ Happened(Rec("fill", "input[type=\"password\"]", "ok"))
        /\ Happened(Rec("click", LoginClick(script)[2], "ok"))
        /\ \E j \in Idx : j > i /\ SysWait(calls[j])

\* C5 (amended): after a successful authentication marker wait the calls of
\* the optional block run in source order (in verify_app_revolutionary
\* starting with is_visible) up to the first one that raises or, for
\* is_visible, returns False; the login click is reached only when every
\* call before it went on; and whichever way the block ends, the next call
\* is the SYSTEM ACTIVE wait, which every finished run has attempted.
C5_LoginBlockInOrder ==
    \A i \in Idx : AuthDetected(i) =>
        LET block == LoginBlock(script)
            n == Len(block)
        IN  /\ \A k \in 1..(n + 1) : i + k <= Len(calls) =>
                 LET stops == {m \in 1..(k - 1) : ~GoesOn(calls[i + m])}
                 IN  IF stops = {} /\ k <= n
                     THEN /\ calls[i + k].op = block[k][1]
                          /\ calls[i + k].arg = block[k][2]
                     ELSE (stops = {} \/ stops = {k - 1})
                             => SysWait(calls[i + k])
            /\ \A j \in Idx :
                 (j > i /\ calls[j].op = "click"
                        /\ calls[j].arg = block[n][2])
                 => (j = i + n /\ \A m \in 1..(n - 1) : GoesOn(calls[i + m]))
            /\ Done => \E j \in Idx : j > i /\ SysWait(calls[j])

C5_Witness ==
    /\ Done
    /\ script = REV
    /\ Happened(Wait("text=ROCKHOUND", "ok"))
    /\ Happened(Rec("is_visible", "button:has-text(\"Initialize Protocol\")",
                    "True"))
    /\ Happened(Rec("click", "button:has-text(\"Authenticate\")", "ok"))
    /\ Happened(Wait("text=SYSTEM ACTIVE", "ok"))

\* C6: every run of every script terminates, and it terminates with no
\* browser left open: from any point of a run, the end of the run with the
\* browser not open is eventually reached.
C6_RunTerminatesClosed ==
    (pc # "done") ~> (pc = "done" /\ browser # "open")

C6_Witness ==
    /\ Done
    /\ browser = "closed"
    /\ result = "escaped"
    /\ Happened(Wait("text=SYSTEM ACTIVE", "raise"))

C8_OnlyOptionalWaitsSwallowed ==
    script \in {APP, REV} =>
        /\ \A c \in swallowed : OptionalMiss(c)
        /\ Done => \A i \in Idx :
             (calls[i].res = "raise" /\ ~OptionalMiss(calls[i])
                /\ ~IsFailureShot(calls[i])
                /\ calls[i].op \notin {"launch", "new_page"})
             => calls[i] \in topCaught

\* The mandatory steps of a script in source order: marker and screenshot.
Trail(s) ==
    IF s = APP
    THEN << <<"text=SYSTEM ACTIVE", "verification/2_scanner_view.png">>,
            <<"text=Operative Profile", "verification/3_profile_view.png">>,
            <<"text=Vault", "verification/4_collection_view.png">> >>
    ELSE << <<"text=SYSTEM ACTIVE", "verification/3_scanner_hud.png">>,
            <<"text=Mainframe Control", "verification/4_admin_dashboard.png">>,
            <<"text=Planetary Conditions",
              "verification/5_weather_dashboard.png">> >>
LastShot(s) == Trail(s)[Len(Trail(s))][2]

\* C9: in verify_app and verify_app_revolutionary each marker is waited for
\* at most once per run; the screenshot of a mandatory step is written only
\* after the markers of that step and of every earlier mandatory step were
\* detected, in step order, and after the screenshots of the earlier
\* mandatory steps; and no run writes both the last step's screenshot and
\* the failure screenshot.
C9_PrefixTrail ==
    script \in {APP, REV} =>
        /\ \A i, j \in Idx :
             (calls[i].op = "wait_for_selector"
                /\ calls[j].op = "wait_for_selector"
                /\ calls[i].arg = calls[j].arg) => i = j
        /\ \A k \in 1..Len(Trail(script)) : \A i \in Idx :
             calls[i] = Rec("screenshot", Trail(script)[k][2], "ok") =>
                /\ \E j \in 1..(i - 1) :
                      calls[j] = Wait(Trail(script)[k][1], "ok")
                /\ k > 1 =>
                      \E j \in 1..(i - 1) :
                         /\ calls[j] = Rec("screenshot",
                                           Trail(script)[k - 1][2], "ok")
                         /\ \E h \in (j + 1)..(i - 1) :
                               calls[h] = Wait(Trail(script)[k][1], "ok")
        /\ ~(LastShot(script) \in written /\ ErrorShot(script) \in written)

C9_Witness ==
    /\ Done
    /\ script = REV
    /\ "verification/5_weather_dashboard.png" \in written
    /\ "verification/4_admin_dashboard.png" \in written

LoadLines == {"App loaded successfully (Auth screen)",
              "App loaded successfully (Scanner)",
              "Still stuck or unknown state"}

\* C10 (as stated): a run of verify_fix prints at most one of the three load
\* outcome lines; the stuck line and still_stuck.png occur only when neither
\* marker was detected; and the SYSTEM ACTIVE wait is attempted only after
\* the ROCKHOUND wait failed.
C10_OneLoadOutcome ==
    script = FIX =>
        /\ Cardinality({n \in 1..Len(out) : out[n] \in LoadLines}) <= 1
        /\ (Printed("Still stuck or unknown state")
              \/ "verification/still_stuck.png" \in written)
           => /\ ~Happened(Wait("text=ROCKHOUND", "ok"))
              /\ ~Happened(Wait("text=SYSTEM ACTIVE", "ok"))
        /\ (\E i \in Idx : SysWait(calls[i]))
           => Happened(Wait("text=ROCKHOUND", "raise"))

====
